---- MODULE Spec2Model ----
\* Block-sparse attention orchestration of
\* xformers/components/attention/blocksparse.py (BlockSparseAttention):
\* construction, lazy kernel construction, and the stages of one forward call.
\* Tensors are modelled by their shapes; the three Triton kernels are opaque
\* calls that are logged in the order they are invoked.
EXTENDS Integers, Sequences, FiniteSets, TLC

\* ---------------------------------------------------------------- bounds
MaxHeads == 2      \* heads of a layout, of q and of a mask: 1..MaxHeads
MaxBlocks == 2     \* row blocks and column blocks of a layout: 1..MaxBlocks
MaxActive == 2     \* active blocks of an enumerated sparse layout: 0..MaxActive
MaxBatch == 1      \* batch of q: 1..MaxBatch; batch of a mask: 1..MaxBatch+1

\* ------------------------------------------------------------ input sets
\* block sizes the constructor accepts (blocksparse.py:76-81)
SupportedBlockSizes == {16, 32, 64, 128}
\* block sizes tried at construction (43 is the unsupported one of the tests)
BlockSizes == {16, 32, 43, 64, 128}
\* sequence lengths of q, k and the mask's last dimension
SeqLens == {32, 128}
Devices == {"cuda:0", "cuda:1"}
NoDevice == "none"

\* ------------------------------------------------------- layouts (tensors)
\* A layout tensor is its shape and the set of its nonzero positions
\* (0-based index tuples).
Range(n) == 0..(n - 1)

Cells(shape) ==
    IF Len(shape) = 3
    THEN {<<h, i, j>> : h \in Range(shape[1]), i \in Range(shape[2]), j \in Range(shape[3])}
    ELSE {<<i, j>> : i \in Range(shape[1]), j \in Range(shape[2])}

RECURSIVE KSubsets(_, _)
KSubsets(S, n) ==
    IF n = 0 THEN {{}}
    ELSE LET smaller == KSubsets(S, n - 1)
         IN  smaller \cup {s \cup {x} : s \in smaller, x \in S}

Shapes3 == {<<h, r, c>> : h \in 1..MaxHeads, r \in 1..MaxBlocks, c \in 1..MaxBlocks}
Shapes2 == {<<r, c>> : r \in 1..MaxBlocks, c \in 1..MaxBlocks}

\* torch.ones(...) layouts
Ones(shape) == [shape |-> shape, nz |-> Cells(shape)]
\* torch.tril(torch.ones(...), diagonal=-1) layouts
Tril(shape) ==
    [shape |-> shape,
     nz |-> {t \in Cells(shape) : t[Len(shape)] < t[Len(shape) - 1]}]

\* the layouts the tests build, 2-D and 3-D
TestLayouts == {Ones(s) : s \in Shapes3 \cup Shapes2} \cup {Tril(s) : s \in Shapes3 \cup Shapes2}
\* every 2-D or 3-D layout with at most MaxActive active blocks
SparseLayouts ==
    UNION {{[shape |-> s, nz |-> a] : a \in KSubsets(Cells(s), MaxActive)} :
           s \in Shapes3 \cup Shapes2}

NoLayout == [shape |-> <<>>, nz |-> {}]

\* ------------------------------------------------------- call arguments
NoTensor == [b |-> 0, h |-> 0, s |-> 0]
NoMask == NoTensor
\* q of shape (b, h, s, head_dim); k is read only through its sequence length
QShapes == [b : 1..MaxBatch, h : 1..MaxHeads, s : SeqLens]
KShapes == [s : SeqLens]
\* att_mask of shape (b, h, 1, s), or None
MaskShapes == {NoMask} \cup [b : 1..(MaxBatch + 1), h : 1..MaxHeads, s : SeqLens]

VARIABLES
    pc,                  \* position: NEW, CTOR_ERROR, IDLE, or the stage of the call
    arg_block_size,      \* the block_size argument given to __init__
    layout,              \* self.layout (3-D after __init__)
    block_size,          \* self.block_size
    kdev,                \* device the cached kernels were built for, or NoDevice
    to_gather,           \* self.to_gather
    broadcast_to_gather, \* self.broadcast_to_gather
    q, k, att_mask,      \* shapes of the arguments of the call in progress
    qdev,                \* q.device of the call in progress
    kernels,             \* kernels invoked so far in the call, in order
    stages,              \* stages entered so far in the call, in order
    reshaped,            \* the mask was reshaped into blocks in this call
    block_att_mask,      \* the gathered block mask (rows of flat mask offsets)
    err,                 \* the error that ended the call, or ""
    out                  \* shape of the returned tensor, or NoTensor

self == <<layout, block_size>>
cache == <<kdev, to_gather, broadcast_to_gather>>
args == <<q, k, att_mask, qdev>>
frame == <<kernels, stages, reshaped, block_att_mask, err, out>>
vars == <<pc, arg_block_size, layout, block_size, kdev, to_gather,
          broadcast_to_gather, q, k, att_mask, qdev, kernels, stages,
          reshaped, block_att_mask, err, out>>

EmptyFrame ==
    /\ kernels = <<>>
    /\ stages = <<>>
    /\ reshaped = FALSE
    /\ block_att_mask = <<>>
    /\ err = ""
    /\ out = NoTensor

Init ==
    /\ pc = "NEW"
    /\ arg_block_size = 0
    /\ layout = NoLayout
    /\ block_size = 0
    /\ kdev = NoDevice
    /\ to_gather = <<>>
    /\ broadcast_to_gather = <<>>
    /\ q = NoTensor
    /\ k = [s |-> 0]
    /\ att_mask = NoMask
    /\ qdev = NoDevice
    /\ EmptyFrame

\* ------------------------------------------------------------- __init__
\* layout.unsqueeze(0).expand(num_heads, -1, -1)
Expand(l, num_heads) ==
    [shape |-> <<num_heads>> \o l.shape,
     nz |-> {<<h>> \o t : h \in Range(num_heads), t \in l.nz}]

\* the layout __init__ stores: a 2-D layout is repeated for every head
AdaptLayout(l, num_heads) ==
    IF Len(l.shape) = 2 THEN Expand(l, num_heads) ELSE l

BlockSizeOK_doc(bs) == bs \in {16, 32, 64}
BlockSizeOK(bs) == bs \in SupportedBlockSizes

Construct(layouts, sizes) ==
    /\ pc = "NEW"
    /\ \E l \in layouts, bs \in sizes, num_heads \in 1..MaxHeads :
          /\ arg_block_size' = bs
          /\ IF BlockSizeOK(bs)
             THEN /\ layout' = AdaptLayout(l, num_heads)
                  /\ block_size' = bs
                  /\ pc' = "IDLE"
             ELSE /\ UNCHANGED self
                  /\ pc' = "CTOR_ERROR"
    /\ UNCHANGED <<cache, args, frame>>

\* ------------------------------------------------ create_triton_kernels
\* layout.nonzero(as_tuple=True): the nonzero positions of the 3-D layout in
\* row-major order, found by walking the flattened tensor from position f.
RECURSIVE NonzeroFrom(_, _)
NonzeroFrom(l, f) ==
    LET R == l.shape[2]
        C == l.shape[3]
        pos == <<f \div (R * C), (f \div C) % R, f % C>>
    IN  IF f >= l.shape[1] * R * C THEN <<>>
        ELSE (IF pos \in l.nz THEN <<pos>> ELSE <<>>) \o NonzeroFrom(l, f + 1)

Nonzero(l) == NonzeroFrom(l, 0)

\* self.to_gather.append(h * num_col_blocks + j)
ToGatherEntry_rows(l, pos) == pos[1] * l.shape[2] + pos[3]
ToGatherEntry(l, pos) == pos[1] * l.shape[3] + pos[3]

\* self.broadcast_to_gather.append(j)
BroadcastEntry(l, pos) == pos[3]

ToGather(l) ==
    LET nzs == Nonzero(l) IN [idx \in 1..Len(nzs) |-> ToGatherEntry(l, nzs[idx])]

BroadcastToGather(l) ==
    LET nzs == Nonzero(l) IN [idx \in 1..Len(nzs) |-> BroadcastEntry(l, nzs[idx])]

\* the part of the next state create_triton_kernels(device) writes
CreateTritonKernels(device) ==
    /\ kdev' = device
    /\ to_gather' = ToGather(layout)
    /\ broadcast_to_gather' = BroadcastToGather(layout)

\* ------------------------------------------------------------- forward
Enter(stage) ==
    /\ pc' = stage
    /\ stages' = Append(stages, stage)

Raise(e) ==
    /\ err' = e
    /\ Enter("ERROR")

\* forward(q, k, v, att_mask) is called on a constructed module
Call(qs, ks, masks, devs) ==
    /\ pc = "IDLE"
    /\ \E qq \in qs, kk \in ks, mm \in masks, dd \in devs :
          /\ q' = qq
          /\ k' = kk
          /\ att_mask' = mm
          /\ qdev' = dd
    /\ pc' = "INIT"
    /\ stages' = <<"INIT">>
    /\ UNCHANGED <<arg_block_size, self, cache, kernels, reshaped,
                   block_att_mask, err, out>>

\* if not hasattr(self, "sparse_dot_sdd")
KernelsMissing == kdev = NoDevice

\* INIT: delayed kernel construction on the device of q
LazyInit ==
    /\ pc = "INIT"
    /\ IF KernelsMissing
       THEN CreateTritonKernels(qdev)
       ELSE UNCHANGED cache
    /\ Enter("VALIDATE")
    /\ UNCHANGED <<arg_block_size, self, args, kernels, reshaped,
                   block_att_mask, err, out>>

\* the four assertions on the sequence lengths, in the order of the code:
\* the failing assertion, or "" when all pass
SeqCheck_noK(qq, kk, l, bs) ==
    IF qq.s # l.shape[2] * bs THEN "q_layout"
    ELSE IF qq.s % bs # 0 THEN "multiple"
    ELSE ""
SeqCheck_noLayout(qq, kk, l, bs) ==
    IF qq.s # kk.s THEN "k_q_dims"
    ELSE IF qq.s % bs # 0 THEN "multiple"
    ELSE ""
SeqCheck(qq, kk, l, bs) ==
    IF qq.s # kk.s THEN "k_q_dims"
    ELSE IF qq.s # l.shape[2] * bs THEN "q_layout"
    ELSE IF kk.s # l.shape[2] * bs THEN "k_layout"
    ELSE IF qq.s % bs # 0 THEN "multiple"
    ELSE ""

\* VALIDATE
Validate ==
    /\ pc = "VALIDATE"
    /\ LET e == SeqCheck(q, k, layout, block_size)
       IN  IF e # "" THEN Raise(e)
           ELSE /\ Enter("SCALE")
                /\ UNCHANGED err
    /\ UNCHANGED <<arg_block_size, self, cache, args, kernels, reshaped,
                   block_att_mask, out>>

\* SCALE: the casts to half and q / sqrt(head_dim)
Scale ==
    /\ pc = "SCALE"
    /\ Enter("SPARSE_QK")
    /\ UNCHANGED <<arg_block_size, self, cache, args, kernels, reshaped,
                   block_att_mask, err, out>>

\* SPARSE_QK: self.sparse_dot_sdd(q, k)
SparseQK ==
    /\ pc = "SPARSE_QK"
    /\ kernels' = Append(kernels, "sdd")
    /\ Enter("MASK")
    /\ UNCHANGED <<arg_block_size, self, cache, args, reshaped,
                   block_att_mask, err, out>>

\* the assertion on the mask's shape (mask is (B,1,1,S) or (B,nh,1,S))
MaskShapeOK_noBatch(m, qq) == m.h \in {qq.h, 1} /\ m.s = qq.s
MaskShapeOK(m, qq) == m.b = qq.b /\ m.h \in {qq.h, 1} /\ m.s = qq.s

\* att_mask.shape[1] * att_mask.shape[-1] // self.block_size
BlockRows(m, bs) == (m.h * m.s) \div bs

\* att_mask.reshape(B, BlockRows, block_size) keeps the number of elements
ReshapeOK(m, bs) == BlockRows(m, bs) * bs = m.h * m.s

\* the index tensor the gather uses
GatherIndex(m) == IF m.h = 1 THEN broadcast_to_gather ELSE to_gather

\* block_att_mask[:, idxs, :] needs every index below the number of rows
IndexOK(idxs, rows) == \A i \in 1..Len(idxs) : idxs[i] < rows

\* row r of the reshaped mask, as the offsets of its elements in the
\* flattened (H, 1, S) mask of one batch element
BlockRow(r, bs) == [e \in 1..bs |-> r * bs + e - 1]

Gather(idxs, bs) == [i \in 1..Len(idxs) |-> BlockRow(idxs[i], bs)]

\* MASK: shape assertion, reshape into blocks, gather, add to the scores
MaskStage ==
    /\ pc = "MASK"
    /\ IF att_mask = NoMask
       THEN /\ Enter("SOFTMAX")
            /\ UNCHANGED <<reshaped, block_att_mask, err>>
       ELSE IF ~MaskShapeOK(att_mask, q)
       THEN /\ Raise("mask_shape")
            /\ UNCHANGED <<reshaped, block_att_mask>>
       ELSE IF ~ReshapeOK(att_mask, block_size)
       THEN /\ Raise("reshape")
            /\ UNCHANGED <<reshaped, block_att_mask>>
       ELSE /\ reshaped' = TRUE
            /\ IF IndexOK(GatherIndex(att_mask), BlockRows(att_mask, block_size))
               THEN /\ block_att_mask' = Gather(GatherIndex(att_mask), block_size)
                    /\ Enter("SOFTMAX")
                    /\ UNCHANGED err
               ELSE /\ Raise("index")
                    /\ UNCHANGED block_att_mask
    /\ UNCHANGED <<arg_block_size, self, cache, args, kernels, out>>

\* SOFTMAX: self.sparse_softmax(sparse_att_mat, scale, is_causal)
Softmax ==
    /\ pc = "SOFTMAX"
    /\ kernels' = Append(kernels, "softmax")
    /\ Enter("DROPOUT")
    /\ UNCHANGED <<arg_block_size, self, cache, args, reshaped,
                   block_att_mask, err, out>>

\* DROPOUT: self.attn_drop(sparse_att_mat)
Dropout ==
    /\ pc = "DROPOUT"
    /\ Enter("SPARSE_AV")
    /\ UNCHANGED <<arg_block_size, self, cache, args, kernels, reshaped,
                   block_att_mask, err, out>>

\* SPARSE_AV: self.sparse_dot_dsd(sparse_att_mat, v)
SparseAV_early ==
    /\ pc = "SPARSE_AV"
    /\ kernels' = Append(kernels, "dsd")
    /\ Enter("DONE")
    /\ out' = q
    /\ UNCHANGED <<arg_block_size, self, cache, args, reshaped,
                   block_att_mask, err>>
SparseAV ==
    /\ pc = "SPARSE_AV"
    /\ kernels' = Append(kernels, "dsd")
    /\ Enter("RESTORE_DTYPE")
    /\ UNCHANGED <<arg_block_size, self, cache, args, reshaped,
                   block_att_mask, err, out>>

\* RESTORE_DTYPE: return a.to(q_dtype), a tensor of the shape of q
RestoreDtype ==
    /\ pc = "RESTORE_DTYPE"
    /\ out' = q
    /\ Enter("DONE")
    /\ UNCHANGED <<arg_block_size, self, cache, args, kernels, reshaped,
                   block_att_mask, err>>

\* the call has returned or raised; the module waits for the next call
Return ==
    /\ pc \in {"DONE", "ERROR"}
    /\ pc' = "IDLE"
    /\ q' = NoTensor
    /\ k' = [s |-> 0]
    /\ att_mask' = NoMask
    /\ qdev' = NoDevice
    /\ kernels' = <<>>
    /\ stages' = <<>>
    /\ reshaped' = FALSE
    /\ block_att_mask' = <<>>
    /\ err' = ""
    /\ out' = NoTensor
    /\ UNCHANGED <<arg_block_size, self, cache>>

Stage ==
    \/ LazyInit
    \/ Validate
    \/ Scale
    \/ SparseQK
    \/ MaskStage
    \/ Softmax
    \/ Dropout
    \/ SparseAV
    \/ RestoreDtype
    \/ Return

\* Shapes: the layouts of the tests, every block size, every q, k and mask
\* shape, every device.
Next ==
    \/ Construct(TestLayouts, BlockSizes)
    \/ Call(QShapes, KShapes, MaskShapes, Devices)
    \/ Stage

Spec == Init /\ [][Next]_vars

\* Kernels: every sparse layout, one block size, one q shape, every device.
KernelQ == [b |-> 1, h |-> 1, s |-> 32]

NextKernels ==
    \/ Construct(SparseLayouts, {32})
    \/ Call({KernelQ}, {[s |-> 32]}, {NoMask, KernelQ}, Devices)
    \/ Stage

SpecKernels == Init /\ [][NextKernels]_vars

\* ================================================================ claims
InCall == stages # <<>>

\* the stages of a call that runs to completion, in order
StageOrder ==
    <<"INIT", "VALIDATE", "SCALE", "SPARSE_QK", "MASK", "SOFTMAX", "DROPOUT",
      "SPARSE_AV", "RESTORE_DTYPE", "DONE">>

IsPrefix(s, t) == Len(s) <= Len(t) /\ \A i \in 1..Len(s) : s[i] = t[i]

\* the sequence-length preconditions of forward, as the specification states them
SeqConsistent ==
    /\ q.s = k.s
    /\ q.s = layout.shape[2] * block_size
    /\ q.s % block_size = 0

\* the mask-shape precondition, with num_heads read as the head count of q
MaskConsistent ==
    /\ att_mask.b = q.b
    /\ att_mask.h \in {1, q.h}
    /\ att_mask.s = q.s

ShapeErrors == {"k_q_dims", "q_layout", "k_layout", "multiple", "mask_shape"}

\* C1 (as stated): whenever a forward call has ended in a shape or
\* configuration error, no kernel has been invoked in that call.
C1_NoKernelBeforeShapeError ==
    (pc = "ERROR" /\ err \in ShapeErrors) => kernels = <<>>

\* C1 (amended): a call whose q/k sequence lengths are inconsistent never
\* invokes a kernel; a call that ends in the mask-shape error has invoked the
\* sparse QK^T matmul and nothing else (neither the softmax nor the AV matmul).
C1_SeqErrorBeforeKernels ==
    InCall =>
        /\ (~SeqConsistent => kernels = <<>>)
        /\ ((pc = "ERROR" /\ err = "mask_shape") => kernels = <<"sdd">>)

C1_Witness ==
    pc = "ERROR" /\ err = "mask_shape" /\ kernels = <<"sdd">> /\ SeqConsistent

\* C2: once a call is past INIT, the cached kernels are bound to the device
\* of that call's query.
C2_KernelsOnQueryDevice ==
    (InCall /\ pc # "INIT") => kdev = qdev

C4_OutputOnlyIfSeqConsistent ==
    /\ (out # NoTensor => SeqConsistent /\ out = q)
    /\ ((InCall /\ ~SeqConsistent) =>
            /\ out = NoTensor
            /\ pc \in {"INIT", "VALIDATE", "ERROR"}
            /\ (pc = "ERROR" => err \in {"k_q_dims", "q_layout", "k_layout", "multiple"}))

C4_Witness ==
    /\ pc = "ERROR"
    /\ q.s = k.s
    /\ q.s # layout.shape[2] * block_size
    /\ q.s % block_size = 0
    /\ out = NoTensor

\* C5: with a mask whose batch, head dimension or trailing dimension is
\* wrong, the mask is never reshaped into blocks, the call never gets past
\* MASK, and the error it ends in is a shape-validation error (the mask-shape
\* error when the sequence lengths of q and k are consistent).
C5_MaskErrorBeforeReshape ==
    (InCall /\ att_mask # NoMask /\ ~MaskConsistent) =>
        /\ ~reshaped
        /\ block_att_mask = <<>>
        /\ pc \in {"INIT", "VALIDATE", "SCALE", "SPARSE_QK", "MASK", "ERROR"}
        /\ (pc = "ERROR" => err \in ShapeErrors)
        /\ ((pc = "ERROR" /\ SeqConsistent) => err = "mask_shape")

C5_Witness ==
    /\ pc = "ERROR"
    /\ err = "mask_shape"
    /\ att_mask.h \notin {1, q.h}
    /\ ~reshaped

\* what the gather of a (B,1,1,S) mask produced in this call
BroadcastResult == [ok |-> pc # "ERROR", rows |-> block_att_mask]

\* the gather through to_gather of the (B,H,1,S) mask that repeats the
\* (B,1,1,S) mask for each of the H = q.h heads: element f of the repeated
\* mask is element f % S of the original
ExpandedResult ==
    LET rows == (q.h * att_mask.s) \div block_size
        ok == \A i \in 1..Len(to_gather) : to_gather[i] < rows
    IN  [ok |-> ok,
         rows |-> IF ok
                  THEN [i \in 1..Len(to_gather) |->
                           [e \in 1..block_size |->
                               (to_gather[i] * block_size + e - 1) % att_mask.s]]
                  ELSE <<>>]

\* C6: when a (B,1,1,S) mask has been block-aligned through
\* broadcast_to_gather, the result equals, block for block, the one obtained
\* through to_gather from the mask repeated for each head.
C6_BroadcastEqualsExpanded ==
    (InCall /\ att_mask # NoMask /\ att_mask.h = 1 /\ reshaped) =>
        BroadcastResult = ExpandedResult

\* C8 (as stated): the stages are entered in the fixed order, and ERROR is
\* entered only from VALIDATE (all validation is done before SCALE).
C8_AllValidationInValidate ==
    \/ stages = <<>>
    \/ IsPrefix(stages, StageOrder)
    \/ stages = <<"INIT", "VALIDATE", "ERROR">>

\* C8 (amended): the stages are entered in the fixed order; ERROR is entered
\* only from VALIDATE or, when a mask is supplied, from MASK, and it is the
\* last stage of the call.
C8_StageOrder ==
    /\ InCall => pc = stages[Len(stages)]
    /\ \/ stages = <<>>
       \/ IsPrefix(stages, StageOrder)
       \/ stages = <<"INIT", "VALIDATE", "ERROR">>
       \/ /\ stages = <<"INIT", "VALIDATE", "SCALE", "SPARSE_QK", "MASK", "ERROR">>
          /\ att_mask # NoMask

C8_Witness ==
    /\ stages = <<"INIT", "VALIDATE", "SCALE", "SPARSE_QK", "MASK", "ERROR">>
    /\ ~MaskConsistent

\* lexicographic (row-major, heads outermost) order on block positions
Before(p, r) ==
    \/ p[1] < r[1]
    \/ p[1] = r[1] /\ p[2] < r[2]
    \/ p[1] = r[1] /\ p[2] = r[2] /\ p[3] < r[3]

\* the number of active blocks that precede pos
Rank(pos) == Cardinality({p \in layout.nz : Before(p, pos)})

\* C9: once the kernels are built, to_gather and broadcast_to_gather have one
\* entry per active block, in row-major order with heads outermost; the entry
\* of the active block (h, i, j) is h * num_col_blocks + j, respectively j.
C9_GatherIndices ==
    kdev # NoDevice =>
        /\ Len(to_gather) = Cardinality(layout.nz)
        /\ Len(broadcast_to_gather) = Cardinality(layout.nz)
        /\ \A pos \in layout.nz :
              /\ to_gather[Rank(pos) + 1] = pos[1] * layout.shape[3] + pos[3]
              /\ broadcast_to_gather[Rank(pos) + 1] = pos[3]

C9_Witness ==
    /\ kdev # NoDevice
    /\ Cardinality(layout.nz) >= 2
    /\ layout.shape[2] # layout.shape[3]
    /\ \E pos \in layout.nz : pos[1] > 0 /\ pos[3] > 0

\* C10: when a supplied mask has passed the shape assertion, every index the
\* gather is about to use is below the number of rows of the reshaped mask.
C10_GatherIndexInRange ==
    (pc = "MASK" /\ att_mask # NoMask /\ MaskConsistent) =>
        LET idxs == IF att_mask.h = 1 THEN broadcast_to_gather ELSE to_gather
        IN  \A i \in 1..Len(idxs) :
                idxs[i] < (att_mask.h * att_mask.s) \div block_size

====
